---- MODULE Spec2Model ----
(***************************************************************************)
(* The chunked-DOM act / extract control loops of stagehand.py, with the   *)
(* inference gateway (lib/inference.py) seen at its call boundary.         *)
(*                                                                         *)
(* _act and _extract call themselves.  A nested call made outside the     *)
(* try block hands its result and its exceptions straight to the caller,  *)
(* so such a frame is replaced by the nested one (frame).  A nested call  *)
(* made inside the try block (stagehand.py 518, 535, 614) leaves a frame   *)
(* whose except clause (635-657) catches what the nested call raises:     *)
(* those frames are kept, innermost last, in handlers.                    *)
(*                                                                         *)
(* Python values False / True / "fallback" of use_vision are written      *)
(* "False" / "True" / "fallback".                                         *)
(*                                                                         *)
(* Spec is the controller (act, extract) with the gateway at its call     *)
(* boundary; GatewaySpec is lib/inference.py act and extract one model    *)
(* call at a time; LedgerSpec is observe and the two Ledgers.             *)
(***************************************************************************)
EXTENDS Integers, Sequences, FiniteSets, TLC

\* ------------------------------------------------------------------ bounds
MaxChunks == 3
MaxDecides == 3

\* ------------------------------------------------------------ input sets
ActionTexts == {"goal1"}
StepDescs == {"s1", "s2"}
Methods == {"click", "fill", "scrollIntoView", "hover"}
SelectorIds == {1}
ElementIds == {1, 7}
ModelNameArgs == {"None", "o1-mini", "llama"}
UseVisionArgs == {"fallback", "True"}
Payloads == {"p1", "p2"}

MODELS_WITH_VISION == {"gpt-4o", "gpt-4o-mini", "claude-3-5-sonnet-20240620", "gpt-4o-2024-08-06"}
supported_models == {"gpt-4o", "gpt-4o-mini", "o1-preview", "o1-mini", "gpt-4o-2024-08-06", "claude-3-5-sonnet-20240620"}
default_model_name == "gpt-4o"

VARIABLES
  numChunks,      \* the page: how many chunks its snapshot reports
  op,             \* the top-level call in progress: "none", "act", "extract"
  pc,             \* "idle", "decide", "execute", "verify", "extract", "done"
  action,         \* act's action text / extract's instruction
  model_name,     \* the model_name argument
  visionArg,      \* the use_vision argument as the caller gave it
  frame,          \* parameters of the running _act / _extract invocation
  handlers,       \* _act frames suspended in a call made inside their try block
  chunks_seen,    \* the chunks_seen list, shared by every frame of one call
  chunk,          \* result["chunk"] of the running frame's snapshot
  response,       \* the gateway's decision the running frame works on
  action_complete,\* _act's local action_complete
  result,         \* what the top-level call returned or raised
  actions,        \* self.actions, the actions Ledger
  gatewayCalls,   \* history: gateway (act / extract) invocations of this call
  visited,        \* history: chunks a gateway invocation of this call looked at
  revisit,        \* history: a gateway invocation looked at a chunk already in chunks_seen
  usedScreenshot, \* history: a decide invocation of this call carried a screenshot
  stable,         \* history: the chunk count did not change during this call
  streak,         \* history: what every step of this call so far came to: "none" (no
                  \* step yet), "null", "invalid", "raised", or "mixed"
  commands,       \* the element commands the running frame sent to the browser
  verification,   \* the running frame's verify_act_completion call: what it was
                  \* given and what the model answered
  observations,   \* self.observations, the observations Ledger
  overwritten,    \* history: the last Ledger write replaced an entry's result
  gateway,        \* the running lib.inference invocation, seen from inside
  modelCalls,     \* the model calls that invocation has made, in order
  gatewayResult,  \* what that invocation returned or raised
  cache,          \* the Cache object in use, if one was made
  files,          \* .cache/actions.json and .cache/observations.json on disk
  cacheResult,    \* the last Cache call: what was asked, what it returned or raised
  writers,        \* two callers of the cache's writes, each between its steps
  browser         \* the driver's windows and the running iteration's snapshot

vars == <<numChunks, op, pc, action, model_name, visionArg, frame, handlers, chunks_seen,
          chunk, response, action_complete, result, actions, gatewayCalls, visited,
          revisit, usedScreenshot, stable, streak, commands, verification,
          observations, overwritten, gateway, modelCalls, gatewayResult,
          cache, files, cacheResult, writers, browser>>

\* the controller's variables, and the gateway's
ctlvars == <<numChunks, op, pc, action, model_name, visionArg, frame, handlers,
             chunks_seen, chunk, response, action_complete, result, actions,
             gatewayCalls, visited, revisit, usedScreenshot, stable, streak, commands,
             verification>>
gwvars == <<gateway, modelCalls, gatewayResult>>
ledgervars == <<observations, overwritten>>
cachevars == <<cache, files, cacheResult, writers>>
browservars == <<browser>>

hist == <<gatewayCalls, visited, revisit, usedScreenshot, stable, streak, commands,
          verification>>

\* --------------------------------------------------------------- helpers
Range(s) == {s[i] : i \in DOMAIN s}
Min(S) == CHOOSE x \in S : \A y \in S : x <= y
Front(s) == SubSeq(s, 1, Len(s) - 1)
Last(s) == s[Len(s)]

NoResponse == [kind |-> "none"]
NoResult == [kind |-> "none"]
NoFrame == [kind |-> "none"]
NoVerification == [kind |-> "none"]
NoGateway == [op |-> "none"]

Raised(err) == [kind |-> "raised", error |-> err]
Returned(ok, msg) == [kind |-> "returned", success |-> ok, message |-> msg]

\* hashlib.sha256(text.encode()).hexdigest(), on the texts of the model
sha256(text) ==
  CASE text = "goal1" -> "5f1d"
    [] text = "goal2" -> "a3c9"
    [] OTHER -> "e3b0"

\* mutant of record_action: an entry, once written, is kept
record_action_keepsFirst(ledger, text, res) ==
  [k \in (DOMAIN ledger) \cup {sha256(text)} |->
      IF k \in DOMAIN ledger THEN ledger[k] ELSE [result |-> res, action |-> text]]

\* record_action: self.actions[action_id] = {"result": result, "action": action}
record_action(ledger, text, res) ==
  [k \in (DOMAIN ledger) \cup {sha256(text)} |->
      IF k = sha256(text) THEN [result |-> res, action |-> text] ELSE ledger[k]]

\* mutant of record_observation: the new entry replaces the Ledger
record_observation_onlyLast(ledger, text, res) ==
  [k \in {sha256(text)} |-> [result |-> res, observation |-> text]]

\* mutant of record_observation: nothing is written
record_observation_noop(ledger, text, res) == ledger

\* record_observation: self.observations[observation_id] = {"result": result,
\* "observation": observation}
record_observation(ledger, text, res) ==
  [k \in (DOMAIN ledger) \cup {sha256(text)} |->
      IF k = sha256(text) THEN [result |-> res, observation |-> text] ELSE ledger[k]]

\* window.processDom(chunks_seen): the next unseen chunk and the chunk list
processDom(seen, n) ==
  LET unseen == {c \in 0..(n - 1) : c \notin Range(seen)}
  IN  [chunk |-> IF unseen = {} THEN n - 1 ELSE Min(unseen),
       chunks |-> n,
       selectorMap |-> SelectorIds]

\* Python truthiness of a use_vision value
Truthy(v) == v # "False"

\* _get_vision_screenshot: whether a screenshot is produced
get_vision_screenshot(use_vision, model) ==
  IF ~Truthy(use_vision) THEN FALSE
  ELSE IF model \notin MODELS_WITH_VISION THEN FALSE
  ELSE TRUE

\* model = model_name or self.default_model_name
Model == IF model_name = "None" THEN default_model_name ELSE model_name

\* mutant of Downgrade: only the decide step loses vision
Downgrade_decideOnly(f) ==
  IF Model \notin MODELS_WITH_VISION /\ (f.use_vision # "False" \/ f.verifier_use_vision)
  THEN [f EXCEPT !.use_vision = "False"]
  ELSE f

\* the vision settings of a frame after the unsupported-vision downgrade
Downgrade(f) ==
  IF Model \notin MODELS_WITH_VISION /\ (f.use_vision # "False" \/ f.verifier_use_vision)
  THEN [f EXCEPT !.use_vision = "False", !.verifier_use_vision = FALSE]
  ELSE f

\* act(): "fallback" is turned into False before _act is entered
ActUseVision(arg) == IF arg # "fallback" THEN arg ELSE "False"
ActVerifierUseVision(use_vision) == use_vision # "False"

\* ------------------------------------------------------- the gateway's replies

\* what llm_client.create_chat_completion hands verify_act_completion: it
\* raises, or returns a value of some type; keys are a dict's keys
VerifyModelResponses ==
  {[type |-> "raise"],
   [type |-> "NoneType", empty |-> TRUE],
   [type |-> "str", empty |-> FALSE],
   [type |-> "dict", empty |-> TRUE, keys |-> {}],
   [type |-> "dict", empty |-> FALSE, keys |-> {"reason"}],
   [type |-> "dict", empty |-> FALSE, keys |-> {"completed"}, completed |-> TRUE],
   [type |-> "dict", empty |-> FALSE, keys |-> {"completed"}, completed |-> FALSE]}

\* mutant of verify_act_completion: a response without "completed" is an error
verify_act_completion_strict(m) ==
  IF m.type = "raise" THEN "raise"
  ELSE IF m.empty \/ m.type # "dict" THEN "false"
  ELSE IF "completed" \notin m.keys THEN "raise"
  ELSE IF m.completed THEN "true" ELSE "false"

\* lib.inference.verify_act_completion (lib/inference.py 59-69)
verify_act_completion(m) ==
  IF m.type = "raise" THEN "raise"
  ELSE IF m.empty \/ m.type # "dict" THEN "false"
  ELSE IF "completed" \notin m.keys THEN "false"
  ELSE IF m.completed THEN "true" ELSE "false"

\* lib.inference.verify_act_completion as the controller sees it
VerifyReplies == {verify_act_completion(m) : m \in VerifyModelResponses}

\* mutant of VerifierInputs: the DOM encoding is gathered in either mode
VerifierInputs_both(verifier_use_vision) ==
  [screenshot |-> verifier_use_vision, dom_elements |-> TRUE]

\* stagehand.py 571-590: which of fullpage_screenshot / dom_elements is not None
VerifierInputs(verifier_use_vision) ==
  [screenshot |-> verifier_use_vision, dom_elements |-> ~verifier_use_vision]

\* what the browser does with one element command
BrowserOutcomes == {"ok", "locate_raises", "command_raises"}

\* ------------------------------------------------------- narrative (steps)
ScrolledNote == [kind |-> "scrolled"]
StepRecord(r) == [kind |-> "step", step |-> r.step, element |-> r.element, method |-> r.method]

\* new_steps = steps + "## Step: ..." (stagehand.py 551-558)
NewSteps(steps, r) == Append(steps, StepRecord(r))

\* history: the streak after one more step of kind k
Join(s, k) == IF s \in {"none", k} THEN k ELSE "mixed"

\* ------------------------------------------------------- code conditions
\* mutants of ChunksRemain: the comparison off by one, either way
ChunksRemain_stopsEarly(seen, chunks) == Len(seen) + 2 < chunks
ChunksRemain_countsCurrent(seen, chunks) == Len(seen) < chunks

\* stagehand.py 368: unseen chunks remain besides the current one
ChunksRemain(seen, chunks) == Len(seen) + 1 < chunks

\* mutant of RetryAllowed: one retry more
RetryAllowed_three(retries) == retries < 3

\* stagehand.py 517, 534, 641: the retry budget
RetryAllowed(retries) == retries < 2

\* mutant of NeedsVerification: every executed decision is verified
NeedsVerification_always(r) == TRUE

\* stagehand.py 564: only a decision flagged completed is verified
NeedsVerification(r) == r.completed

\* stagehand.py 432, 450, 503: the method vocabulary
MethodKind(method) ==
  CASE method = "scrollIntoView" -> "scroll"
    [] method = "click" -> "click"
    [] method \in {"fill", "type"} -> "fill"
    [] OTHER -> "invalid"

\* the decisions the model may take: every method of the vocabulary on an
\* element of the map (a click with either step description), one decision
\* with a method outside the vocabulary, one with an element id outside the map
Decisions ==
  [kind : {"decision"}, element : SelectorIds, method : {"click"},
   step : StepDescs, completed : BOOLEAN]
  \cup [kind : {"decision"}, element : SelectorIds,
        method : {m \in Methods : MethodKind(m) \notin {"click", "invalid"}},
        step : {"s1"}, completed : BOOLEAN]
  \cup [kind : {"decision"}, element : SelectorIds,
        method : {m \in Methods : MethodKind(m) = "invalid"},
        step : {"s1"}, completed : {FALSE}]
  \cup [kind : {"decision"}, element : ElementIds \ SelectorIds, method : {"click"},
        step : {"s1"}, completed : {FALSE}]

\* mutant of ActReplies: the model table is not consulted
ActReplies_anyModel(model) ==
  {[kind |-> "null"], [kind |-> "raise", error |-> "InferenceFailure"]} \cup Decisions

\* lib.inference.act as the controller sees it: None (skipSection, or no tool
\* call after the gateway's own retries), a decision, or a raised failure;
\* get_client raises for a model outside supported_models
ActReplies(model) ==
  IF model \notin supported_models
  THEN {[kind |-> "raise", error |-> "ValueError"]}
  ELSE {[kind |-> "null"], [kind |-> "raise", error |-> "InferenceFailure"]} \cup Decisions

\* ------------------------------------------------------- continuations of _act
\* the next _act invocation runs with parameters f; hs are the suspended frames
Continue(f, hs) ==
  /\ pc' = "decide"
  /\ frame' = f
  /\ handlers' = hs
  /\ UNCHANGED <<result, actions>>

\* the top-level call ends: every frame returns the same value (or lets the
\* exception through)
Finish(res, ledger) ==
  /\ pc' = "done"
  /\ frame' = NoFrame
  /\ handlers' = <<>>
  /\ result' = res
  /\ actions' = ledger

\* the except clause of frame f (stagehand.py 635-657)
ExceptClause(f, hs) ==
  IF RetryAllowed(f.retries)
  THEN Continue([f EXCEPT !.retries = f.retries + 1], hs)
  ELSE Finish(Returned(FALSE, "Error performing action"), record_action(actions, action, ""))

\* an exception leaves the running frame uncaught: the innermost suspended
\* frame's except clause takes it, or the caller of act does
Propagate(err, hs) ==
  IF hs = <<>>
  THEN Finish(Raised(err), actions)
  ELSE ExceptClause(Last(hs), Front(hs))

\* a nested call made inside the try block of frame f (stagehand.py 518, 535)
RetryInTry(f, hs) ==
  Continue([f EXCEPT !.retries = f.retries + 1], Append(hs, f))

\* mutant of Advance: the executed step is left out of the narrative
Advance_dropsStep(f, hs, r) ==
  Continue([f EXCEPT !.retries = 0], Append(hs, f))

\* mutant of Advance: the next step inherits the retries used so far
Advance_keepsRetries(f, hs, r) ==
  Continue([f EXCEPT !.steps = NewSteps(f.steps, r)], Append(hs, f))

\* "Continuing to next action step" (stagehand.py 608-621)
Advance(f, hs, r) ==
  Continue([f EXCEPT !.steps = NewSteps(f.steps, r), !.retries = 0], Append(hs, f))

\* mutant of NoAction: the skip leaves no note in the narrative
NoAction_noNote(f, dom) ==
  IF ChunksRemain(chunks_seen, dom.chunks)
  THEN /\ chunks_seen' = Append(chunks_seen, dom.chunk)
       /\ Continue([f EXCEPT !.retries = 0], handlers)
  ELSE /\ chunks_seen' = chunks_seen
       /\ Finish(Returned(FALSE, "Action was not able to be completed."), actions)

\* mutant of NoAction: giving up is recorded like a failure
NoAction_records(f, dom) ==
  IF ChunksRemain(chunks_seen, dom.chunks)
  THEN /\ chunks_seen' = Append(chunks_seen, dom.chunk)
       /\ Continue([f EXCEPT !.steps = Append(f.steps, ScrolledNote), !.retries = 0], handlers)
  ELSE /\ chunks_seen' = chunks_seen
       /\ Finish(Returned(FALSE, "Action was not able to be completed."),
                 record_action(actions, action, ""))

\* the null branch of _act (stagehand.py 367-405)
NoAction(f, dom) ==
  IF ChunksRemain(chunks_seen, dom.chunks)
  THEN /\ chunks_seen' = Append(chunks_seen, dom.chunk)
       /\ Continue([f EXCEPT !.steps = Append(f.steps, ScrolledNote), !.retries = 0], handlers)
  ELSE IF f.use_vision = "fallback"
  THEN /\ chunks_seen' = chunks_seen
       /\ Continue([f EXCEPT !.use_vision = "True", !.retries = 0], handlers)
  ELSE /\ chunks_seen' = chunks_seen
       /\ Finish(Returned(FALSE, "Action was not able to be completed."), actions)

\* ------------------------------------------------------ lib/cache.py, the data
NoCache == [kind |-> "none"]
NoCacheResult == [op |-> "none"]

\* a path at which no file exists
Absent == [kind |-> "absent"]

\* a Python dict of the cache: its items in insertion order
EmptyDict == <<>>
DictKeys(d) == {d[i].key : i \in DOMAIN d}
DictGet(d, k) == (CHOOSE i \in DOMAIN d : d[i].key = k)
DictValue(d, k) == d[DictGet(d, k)].value

\* d[k] = v: an existing key keeps its place, a new key goes to the end
DictSet(d, k, v) ==
  IF k \in DictKeys(d)
  THEN [i \in DOMAIN d |-> IF d[i].key = k THEN [key |-> k, value |-> v] ELSE d[i]]
  ELSE Append(d, [key |-> k, value |-> v])

\* open(path, 'w') with json.dump: the file holds the document, whatever it held
json_dump(d) == [kind |-> "json", document |-> d]

\* open(path, 'r') with json.load: the document, or the error of a missing file
json_load(file) ==
  IF file.kind = "json"
  THEN [kind |-> "value", value |-> file.document]
  ELSE [kind |-> "raise", error |-> "FileNotFoundError"]

\* lib/cache.py 25-47: read_observations and read_actions of cache c on disk fs
read_file(c, fs, path) ==
  IF c.disabled THEN EmptyDict
  ELSE LET loaded == json_load(fs[path])
       IN  IF loaded.kind = "raise" THEN EmptyDict ELSE loaded.value
read_observations(c, fs) == read_file(c, fs, "observations")
read_actions(c, fs) == read_file(c, fs, "actions")

\* mutant of write_actions: the file is written without being read first
write_actions_noRead(c, fs, key, value) ==
  IF c.disabled THEN fs
  ELSE [fs EXCEPT !.actions =
          json_dump(DictSet(EmptyDict, key, [id |-> value.id, result |-> value.result]))]

\* lib/cache.py 60-69: the disk after write_actions(key, value)
write_actions(c, fs, key, value) ==
  IF c.disabled THEN fs
  ELSE [fs EXCEPT !.actions =
          json_dump(DictSet(read_actions(c, fs), key,
                            [id |-> value.id, result |-> value.result]))]

\* lib/cache.py 49-58: the disk after write_observations(key, value)
write_observations(c, fs, key, value) ==
  IF c.disabled THEN fs
  ELSE [fs EXCEPT !.observations =
          json_dump(DictSet(read_observations(c, fs), key,
                            [id |-> value.id, result |-> value.result]))]

\* the callers that may write at the same time, and a caller not in a write
Writers == {"a", "b"}
IdleWriter == [pc |-> "idle"]

\* lib/cache.py 75-94: the disk after _init_cache
init_cache(c, fs) ==
  IF c.disabled THEN fs
  ELSE [path \in DOMAIN fs |->
          IF fs[path] = Absent THEN json_dump(EmptyDict) ELSE fs[path]]

\* ------------------------------------------------------ the driver's windows
WindowHandles == {"w1", "w2"}
Urls == {"u1", "u2", "u3"}

\* a new driver after goto: one window on the loaded page; no snapshot of it
\* has been taken, no iteration has run
NewBrowser ==
  [handles |-> <<"w1">>, current |-> "w1",
   url |-> [h \in WindowHandles |-> IF h = "w1" THEN "u1" ELSE "none"],
   snapshot |-> "none", initial_url |-> "none", faults |-> {},
   outcome |-> [next |-> "none"]]

\* driver.current_url
current_url(b) == b.url[b.current]

\* mutant of TakeSnapshot: the selector map of the first invocation is kept
TakeSnapshot_onlyFirst(b) ==
  IF b.snapshot = "none" THEN [b EXCEPT !.snapshot = "fresh"] ELSE b

\* stagehand.py 331-339: every _act invocation asks the page for its
\* selector map
TakeSnapshot(b) == [b EXCEPT !.snapshot = "fresh"]

\* the active context shows another document: a selector map taken before
\* describes the document that is gone
Navigated(b, url) ==
  [b EXCEPT !.url[b.current] = url,
            !.snapshot = IF b.snapshot = "none" THEN "none" ELSE "stale"]

\* driver.switch_to.window(handle)
SwitchTo(b, handle) == [b EXCEPT !.current = handle]

\* mutant of Close: no window is closed
Close_keepsAll(b) == b

\* driver.close(): the current window is closed; no window is current
Close(b) ==
  [b EXCEPT !.handles = SelectSeq(b.handles, LAMBDA h : h # b.current),
            !.url[b.current] = "none",
            !.current = "none"]

\* driver.get(url)
Get(b, url) == Navigated(b, url)

\* stagehand.py 459-469: the last handle is taken for the new window; the
\* driver switches to it, closes it and switches to the first handle
ClosedNewTab(b) ==
  LET handles == b.handles
      new_handle == handles[Len(handles)]
  IN  SwitchTo(Close(SwitchTo(b, new_handle)), handles[1])

\* stagehand.py 462: new_url, read while the driver is on the new window
NewTabUrl(b) == b.url[b.handles[Len(b.handles)]]

\* stagehand.py 459-474: the handling of a window the click opened
HandleNewTab(b) ==
  IF Len(b.handles) > 1 THEN Get(ClosedNewTab(b), NewTabUrl(b)) ELSE b

\* what a click does to the page: nothing, a navigation of the window, a new
\* window (the driver stays on the window it was on)
ClickEffects(b) ==
  {b}
  \cup {Navigated(b, u) : u \in Urls \ {current_url(b)}}
  \cup {[b EXCEPT !.handles = Append(b.handles, h), !.url[h] = u] :
          h \in WindowHandles \ Range(b.handles), u \in Urls}

\* mutant of AfterScroll: an error of the scroll script is handled as the
\* errors of the other commands are
AfterScroll_fatal(raised) == IF raised THEN "except" ELSE "steps"

\* stagehand.py 438-448: the scroll script's error is logged and that is all
AfterScroll(raised) == "steps"

\* how the iteration ends when the except clause takes over (635-657)
ExceptOutcome(f) ==
  IF RetryAllowed(f.retries)
  THEN [next |-> "retry", steps |-> f.steps, retries |-> f.retries + 1]
  ELSE [next |-> "failure", steps |-> f.steps, retries |-> f.retries]

\* how the iteration ends after new_steps (551-621): verification or the
\* next step, with the retries the invocation came with
StepsOutcome(f, r) ==
  [next |-> IF NeedsVerification(r) THEN "verify" ELSE "advance",
   steps |-> NewSteps(f.steps, r), retries |-> f.retries]

\* mutant of NewChunksSeen: the call goes on with the list the previous call left
NewChunksSeen_reused == chunks_seen

\* the chunks-seen list a top-level call starts with: act passes a new list
\* (stagehand.py 287), _extract makes one when none is passed (675)
NewChunksSeen == <<>>

\* ------------------------------------------------------------------- actions
Init ==
  /\ numChunks = 1
  /\ op = "none"
  /\ pc = "idle"
  /\ action = "goal1"
  /\ model_name = "None"
  /\ visionArg = "fallback"
  /\ frame = NoFrame
  /\ handlers = <<>>
  /\ chunks_seen = <<>>
  /\ chunk = 0
  /\ response = NoResponse
  /\ action_complete = FALSE
  /\ result = NoResult
  /\ actions = <<>>
  /\ gatewayCalls = 0
  /\ visited = {}
  /\ revisit = FALSE
  /\ usedScreenshot = FALSE
  /\ stable = TRUE
  /\ streak = "none"
  /\ commands = <<>>
  /\ verification = NoVerification
  /\ observations = <<>>
  /\ overwritten = FALSE
  /\ gateway = NoGateway
  /\ modelCalls = <<>>
  /\ gatewayResult = NoResult
  /\ cache = NoCache
  /\ files = [actions |-> Absent, observations |-> Absent]
  /\ cacheResult = NoCacheResult
  /\ writers = [w \in Writers |-> IdleWriter]
  /\ browser = NewBrowser

\* Stagehand.goto: the browser shows another page
goto ==
  /\ UNCHANGED <<ledgervars, gwvars, cachevars, browservars>>
  /\ pc = "idle"
  /\ \E n \in 1..MaxChunks : numChunks' = n
  /\ UNCHANGED <<op, pc, action, model_name, visionArg, frame, handlers, chunks_seen,
                 chunk, response, action_complete, result, actions, hist>>

\* the live page gets longer while a call is between two snapshots
PageGrows ==
  /\ UNCHANGED <<ledgervars, gwvars, cachevars, browservars>>
  /\ pc \in {"decide", "extract"}
  /\ numChunks < MaxChunks
  /\ numChunks' = numChunks + 1
  /\ stable' = FALSE
  /\ UNCHANGED <<op, pc, action, model_name, visionArg, frame, handlers, chunks_seen,
                 chunk, response, action_complete, result, actions, gatewayCalls,
                 visited, revisit, usedScreenshot, streak, commands, verification>>

\* Stagehand.act
ActCall ==
  /\ UNCHANGED <<ledgervars, gwvars, cachevars, browservars>>
  /\ pc = "idle"
  /\ \E a \in ActionTexts, m \in ModelNameArgs, v \in UseVisionArgs :
       LET use_vision == ActUseVision(v) IN
       /\ op' = "act"
       /\ pc' = "decide"
       /\ action' = a
       /\ model_name' = m
       /\ visionArg' = v
       /\ frame' = [steps |-> <<>>, retries |-> 0, use_vision |-> use_vision,
                    verifier_use_vision |-> ActVerifierUseVision(use_vision)]
  /\ handlers' = <<>>
  /\ chunks_seen' = NewChunksSeen
  /\ UNCHANGED <<numChunks, chunk, response, action_complete, result, actions, hist>>

\* _act up to the handling of a null response (stagehand.py 292-405)
Decide ==
  /\ UNCHANGED <<ledgervars, gwvars, cachevars, browservars>>
  /\ pc = "decide"
  /\ gatewayCalls < MaxDecides
  /\ LET f == Downgrade(frame)
         dom == processDom(chunks_seen, numChunks)
         shot == get_vision_screenshot(f.use_vision, Model)
     IN  /\ chunk' = dom.chunk
         /\ gatewayCalls' = gatewayCalls + 1
         /\ visited' = visited \cup {dom.chunk}
         /\ revisit' = (revisit \/ dom.chunk \in Range(chunks_seen))
         /\ usedScreenshot' = (usedScreenshot \/ shot)
         /\ \E r \in ActReplies(Model) :
              /\ response' = r
              /\ CASE r.kind = "raise" ->
                       /\ Propagate(r.error, handlers)
                       /\ chunks_seen' = chunks_seen
                       /\ streak' = "mixed"
                  [] r.kind = "null" ->
                       /\ NoAction(f, dom)
                       /\ streak' = Join(streak, "null")
                  [] OTHER ->
                       /\ pc' = "execute"
                       /\ frame' = f
                       /\ UNCHANGED <<handlers, result, actions, chunks_seen, streak>>
  /\ commands' = <<>>
  /\ verification' = NoVerification
  /\ UNCHANGED <<numChunks, op, action, model_name, visionArg, action_complete, stable>>

\* after the element command: verify a decision flagged completed, else go on
AfterCommand(f, hs, r) ==
  IF NeedsVerification(r)
  THEN /\ pc' = "verify"
       /\ UNCHANGED <<frame, handlers, result, actions>>
  ELSE Advance(f, hs, r)

\* the element command of a decision (stagehand.py 439, 456, 505-509): none
\* for a method outside the vocabulary
Sent(sent, r, b) ==
  IF MethodKind(r.method) = "invalid"
  THEN sent
  ELSE Append(sent, [element |-> r.element, method |-> r.method, ok |-> (b = "ok")])

\* _act from the selector lookup to new_steps (stagehand.py 407-562)
Execute ==
  /\ UNCHANGED <<ledgervars, gwvars, cachevars, browservars>>
  /\ pc = "execute"
  /\ IF response.element \notin processDom(chunks_seen, numChunks).selectorMap
     THEN /\ Propagate("KeyError", handlers)
          /\ streak' = "mixed"
          /\ commands' = commands
     ELSE \E b \in BrowserOutcomes :
            IF b = "locate_raises"
            THEN /\ ExceptClause(frame, handlers)
                 /\ streak' = Join(streak, "raised")
                 /\ commands' = commands
            ELSE /\ commands' = Sent(commands, response, b)
                 /\ CASE MethodKind(response.method) = "scroll" ->
                        /\ AfterCommand(frame, handlers, response)
                        /\ streak' = "mixed"
                   [] MethodKind(response.method) = "click" ->
                        IF b = "command_raises"
                        THEN /\ ExceptClause(frame, handlers)
                             /\ streak' = Join(streak, "raised")
                        ELSE /\ AfterCommand(frame, handlers, response)
                             /\ streak' = "mixed"
                   [] MethodKind(response.method) = "fill" ->
                        IF b = "command_raises"
                        THEN /\ streak' = Join(streak, "raised")
                             /\ IF RetryAllowed(frame.retries)
                                THEN RetryInTry(frame, handlers)
                                ELSE AfterCommand(frame, handlers, response)
                        ELSE /\ AfterCommand(frame, handlers, response)
                             /\ streak' = "mixed"
                   [] OTHER ->
                        /\ streak' = Join(streak, "invalid")
                        /\ IF RetryAllowed(frame.retries)
                           THEN RetryInTry(frame, handlers)
                           ELSE Finish(Returned(FALSE, "Internal error: Chosen method is invalid"),
                                       actions)
  /\ action_complete' = FALSE
  /\ UNCHANGED <<numChunks, op, action, model_name, visionArg, chunks_seen, chunk,
                 response, gatewayCalls, visited, revisit, usedScreenshot, stable,
                 verification>>

\* the verification of a decision flagged completed (stagehand.py 563-633)
VerifyCompletion ==
  /\ UNCHANGED <<ledgervars, gwvars, cachevars, browservars>>
  /\ pc = "verify"
  /\ \E snapshot \in {"ok", "raises"} :
       IF snapshot = "raises"
       THEN /\ ExceptClause(frame, handlers)
            /\ UNCHANGED <<action_complete, verification>>
       ELSE \E m \in VerifyModelResponses :
              LET given == VerifierInputs(frame.verifier_use_vision)
                  v == verify_act_completion(m)
              IN  /\ verification' = [kind |-> "call",
                                       vision |-> frame.verifier_use_vision,
                                       screenshot |-> given.screenshot,
                                       dom_elements |-> given.dom_elements,
                                       reply |-> m]
                  /\ CASE v = "raise" ->
                            /\ ExceptClause(frame, handlers)
                            /\ UNCHANGED action_complete
                       [] v = "true" ->
                            /\ action_complete' = TRUE
                            /\ Finish(Returned(TRUE, "Action completed successfully"),
                                      record_action(actions, action, response.step))
                       [] OTHER ->
                            /\ action_complete' = FALSE
                            /\ Advance(frame, handlers, response)
  /\ UNCHANGED <<numChunks, op, action, model_name, visionArg, chunks_seen, chunk,
                 response, gatewayCalls, visited, revisit, usedScreenshot, stable,
                 streak, commands>>

\* ------------------------------------------------------------ extract
\* the parameters lib.inference.extract declares (lib/inference.py 125-135)
extract_parameters ==
  {"instruction", "progress", "previously_extracted_content", "dom_elements", "schema",
   "llm_provider", "model_name", "chunks_seen", "chunks_total"}

\* the keyword arguments _extract passes besides the nine positional ones
\* (stagehand.py 706-717)
extract_call_keywords == {"screenshot"}

\* Python binds a call only if every keyword names a parameter; otherwise the
\* call raises TypeError before the function body runs
ExtractCallBinds == extract_call_keywords \subseteq extract_parameters

\* refined_response with its "metadata" field, as lib.inference.extract returns it
ExtractReplies(model) ==
  IF model \notin supported_models
  THEN {[kind |-> "raise", error |-> "ValueError"]}
  ELSE {[kind |-> "raise", error |-> "InferenceFailure"]}
       \cup [kind : {"extraction"}, payload : [items : {<<d>> : d \in Payloads}]
                                               \cup [field : Payloads],
             progress : {"more"}, completed : BOOLEAN]

\* stagehand.py 724-727: a dict with an "items" list stands for that list
Unwrap(payload) ==
  IF "items" \in DOMAIN payload THEN [list |-> payload.items] ELSE payload

EmptyContent == [field |-> "none"]

\* stagehand.py 739: the extraction is over
ExtractionOver(completed, seen, chunks) == completed \/ Len(seen) = chunks

\* Stagehand.extract
ExtractCall ==
  /\ UNCHANGED <<ledgervars, gwvars, cachevars, browservars>>
  /\ pc = "idle"
  /\ \E a \in ActionTexts, m \in ModelNameArgs, v \in {"True", "False"} :
       /\ op' = "extract"
       /\ pc' = "extract"
       /\ action' = a
       /\ model_name' = m
       /\ visionArg' = v
       /\ frame' = [progress |-> "", content |-> EmptyContent, use_vision |-> v]
  /\ handlers' = <<>>
  /\ chunks_seen' = NewChunksSeen
  /\ UNCHANGED <<numChunks, chunk, response, action_complete, result, actions, hist>>

\* one _extract invocation (stagehand.py 659-761)
Extract ==
  /\ UNCHANGED <<ledgervars, gwvars, cachevars, browservars>>
  /\ pc = "extract"
  /\ LET dom == processDom(chunks_seen, numChunks)
         shot == get_vision_screenshot(frame.use_vision, Model)
     IN  /\ chunk' = dom.chunk
         /\ gatewayCalls' = gatewayCalls + 1
         /\ visited' = visited \cup {dom.chunk}
         /\ revisit' = (revisit \/ dom.chunk \in Range(chunks_seen))
         /\ usedScreenshot' = (usedScreenshot \/ shot)
         /\ IF ~ExtractCallBinds
            THEN /\ Finish(Raised("TypeError"), actions)
                 /\ UNCHANGED <<response, chunks_seen>>
            ELSE \E r \in ExtractReplies(Model) :
                   IF r.kind = "raise"
                   THEN /\ Finish(Raised(r.error), actions)
                        /\ UNCHANGED <<response, chunks_seen>>
                   ELSE LET output == Unwrap(r.payload)
                            seen == Append(chunks_seen, dom.chunk)
                        IN  /\ response' = r
                            /\ chunks_seen' = seen
                            /\ IF ExtractionOver(r.completed, seen, dom.chunks)
                               THEN Finish([kind |-> "returned", output |-> output], actions)
                               ELSE /\ pc' = "extract"
                                    /\ frame' = [frame EXCEPT !.progress = r.progress,
                                                              !.content = output]
                                    /\ UNCHANGED <<handlers, result, actions>>
  /\ UNCHANGED <<numChunks, op, action, model_name, visionArg, action_complete, stable,
                 streak, commands, verification>>

\* the caller takes the result; the instance is ready for the next call (the
\* list of the finished call is left where it is: nothing refers to it)
Return ==
  /\ UNCHANGED <<ledgervars, gwvars, cachevars, browservars>>
  /\ pc = "done"
  /\ op' = "none"
  /\ pc' = "idle"
  /\ action' = "goal1"
  /\ model_name' = "None"
  /\ visionArg' = "fallback"
  /\ frame' = NoFrame
  /\ handlers' = <<>>
  /\ chunk' = 0
  /\ response' = NoResponse
  /\ action_complete' = FALSE
  /\ result' = NoResult
  /\ gatewayCalls' = 0
  /\ visited' = {}
  /\ revisit' = FALSE
  /\ usedScreenshot' = FALSE
  /\ stable' = TRUE
  /\ streak' = "none"
  /\ commands' = <<>>
  /\ verification' = NoVerification
  /\ UNCHANGED <<numChunks, actions, chunks_seen>>

Next ==
  \/ goto
  \/ PageGrows
  \/ ActCall
  \/ Decide
  \/ Execute
  \/ VerifyCompletion
  \/ ExtractCall
  \/ Extract
  \/ Return

Spec == Init /\ [][Next]_vars

\* ================================================ the gateway from inside
\* lib/inference.py: act and extract step by step, one model call per step.
GatewayModels == {"gpt-4o", "llama"}

\* the text of a tool call's arguments: none, a JSON object, not JSON
ArgumentTexts == {"", "{decision}", "{decis"}

\* json.loads on those texts
json_loads(text) ==
  IF text = "{decision}"
  THEN [kind |-> "value",
        value |-> [kind |-> "decision", element |-> 1, method |-> "click",
                   step |-> "s1", completed |-> FALSE]]
  ELSE [kind |-> "raise", error |-> "JSONDecodeError"]

\* what create_chat_completion hands act: it raises, or returns a message
\* with no tool call, with skipSection, or with doAction
ActModelResponses ==
  {[kind |-> "raise"],
   [kind |-> "message", tool_calls |-> <<>>],
   [kind |-> "message", tool_calls |-> <<[name |-> "skipSection", arguments |-> ""]>>]}
  \cup {[kind |-> "message", tool_calls |-> <<[name |-> "doAction", arguments |-> a]>>] :
          a \in ArgumentTexts}

\* what a lib.inference function hands its caller
None == [kind |-> "null"]
GatewayReturned(value, error_logged) ==
  [kind |-> "returned", value |-> value, error_logged |-> error_logged]

\* mutant of GatewayGivesUp: one more model call is allowed
GatewayGivesUp_later(retries) == retries >= 3

\* lib/inference.py 110: no tool call and the retries are used up
GatewayGivesUp(retries) == retries >= 2

\* the outputs of the extraction stages
RawOutputs == {"raw1", "raw2"}
RefinedOutputs == {"ref1", "ref2"}
PreviousContents == {"empty", "ref0"}
MetadataOutputs == [progress : {"more"}, completed : BOOLEAN]

\* lib/inference.py 154-158: what the refine prompt is built from
RefineInputs(previous, raw) ==
  [previously_extracted_content |-> previous, extraction_response |-> raw]

\* mutant of MetadataInputs: the completion stage is shown the raw extraction
MetadataInputs_raw(raw, refined, seen, total) ==
  [refined_response |-> raw, chunks_seen |-> seen, chunks_total |-> total]

\* lib/inference.py 175-180: what the metadata prompt is built from
MetadataInputs(raw, refined, seen, total) ==
  [refined_response |-> refined, chunks_seen |-> seen, chunks_total |-> total]

\* lib/inference.py 82-85, 113-116: what the act prompt is built from; the
\* recursive call passes the three on as it got them
ActPromptInputs == [action |-> "action", dom_elements |-> "dom_elements", steps |-> "steps"]

\* lib.inference.act is called
InferenceActCall ==
  /\ gateway = NoGateway
  /\ \E m \in GatewayModels, shot \in BOOLEAN :
       gateway' = [op |-> "act", model_name |-> m, screenshot |-> shot, retries |-> 0]
  /\ modelCalls' = <<>>
  /\ gatewayResult' = NoResult
  /\ UNCHANGED <<ctlvars, ledgervars, cachevars, browservars>>

\* one pass through the body of act (lib/inference.py 81-122)
InferenceAct ==
  /\ gateway.op = "act"
  /\ gatewayResult = NoResult
  /\ IF gateway.model_name \notin supported_models
     THEN /\ gatewayResult' = Raised("ValueError")
          /\ UNCHANGED <<gateway, modelCalls>>
     ELSE \E r \in ActModelResponses :
            /\ modelCalls' = Append(modelCalls, [stage |-> "act",
                                                 inputs |-> ActPromptInputs,
                                                 image |-> gateway.screenshot,
                                                 reply |-> r])
            /\ IF r.kind = "raise"
               THEN /\ gatewayResult' = Raised("InferenceFailure")
                    /\ UNCHANGED gateway
               ELSE IF r.tool_calls # <<>>
               THEN /\ UNCHANGED gateway
                    /\ IF r.tool_calls[1].name = "skipSection"
                       THEN gatewayResult' = GatewayReturned(None, FALSE)
                       ELSE IF r.tool_calls[1].arguments # ""
                       THEN LET parsed == json_loads(r.tool_calls[1].arguments)
                            IN  IF parsed.kind = "raise"
                                THEN gatewayResult' = Raised(parsed.error)
                                ELSE gatewayResult' = GatewayReturned(parsed.value, FALSE)
                       ELSE gatewayResult' = GatewayReturned(None, FALSE)
               ELSE IF GatewayGivesUp(gateway.retries)
               THEN /\ gatewayResult' = GatewayReturned(None, TRUE)
                    /\ UNCHANGED gateway
               ELSE /\ gateway' = [gateway EXCEPT !.retries = gateway.retries + 1,
                                                  !.screenshot = FALSE]
                    /\ UNCHANGED gatewayResult
  /\ UNCHANGED <<ctlvars, ledgervars, cachevars, browservars>>

\* lib.inference.extract is called
InferenceExtractCall ==
  /\ gateway = NoGateway
  /\ \E m \in GatewayModels, previous \in PreviousContents, total \in 1..MaxChunks :
       \E seen \in 0..(total - 1) :
         gateway' = [op |-> "extract", model_name |-> m,
                     previously_extracted_content |-> previous,
                     chunks_seen |-> seen, chunks_total |-> total]
  /\ modelCalls' = <<>>
  /\ gatewayResult' = NoResult
  /\ UNCHANGED <<ctlvars, ledgervars, cachevars, browservars>>

\* the next create_extraction call of extract (lib/inference.py 135-190)
InferenceExtract ==
  /\ gateway.op = "extract"
  /\ gatewayResult = NoResult
  /\ IF gateway.model_name \notin supported_models
     THEN /\ gatewayResult' = Raised("ValueError")
          /\ UNCHANGED modelCalls
     ELSE CASE Len(modelCalls) = 0 ->
                 \E r \in {[kind |-> "raise"]} \cup [kind : {"value"}, value : RawOutputs] :
                   /\ modelCalls' = Append(modelCalls,
                        [stage |-> "extract", inputs |-> [dom_elements |-> "outputString"],
                         reply |-> r])
                   /\ gatewayResult' = IF r.kind = "raise" THEN Raised("InferenceFailure")
                                       ELSE NoResult
            [] Len(modelCalls) = 1 ->
                 \E r \in {[kind |-> "raise"]} \cup [kind : {"value"}, value : RefinedOutputs] :
                   /\ modelCalls' = Append(modelCalls,
                        [stage |-> "refine",
                         inputs |-> RefineInputs(gateway.previously_extracted_content,
                                                 modelCalls[1].reply.value),
                         reply |-> r])
                   /\ gatewayResult' = IF r.kind = "raise" THEN Raised("InferenceFailure")
                                       ELSE NoResult
            [] OTHER ->
                 \E r \in {[kind |-> "raise"]} \cup [kind : {"value"}, value : MetadataOutputs] :
                   /\ modelCalls' = Append(modelCalls,
                        [stage |-> "metadata",
                         inputs |-> MetadataInputs(modelCalls[1].reply.value,
                                                   modelCalls[2].reply.value,
                                                   gateway.chunks_seen, gateway.chunks_total),
                         reply |-> r])
                   /\ gatewayResult' =
                        IF r.kind = "raise" THEN Raised("InferenceFailure")
                        ELSE GatewayReturned([payload |-> modelCalls[2].reply.value,
                                              metadata |-> r.value], FALSE)
  /\ UNCHANGED <<gateway, ctlvars, ledgervars, cachevars, browservars>>

\* the caller of the gateway takes what it returned or raised
InferenceReturn ==
  /\ gatewayResult # NoResult
  /\ gateway' = NoGateway
  /\ modelCalls' = <<>>
  /\ gatewayResult' = NoResult
  /\ UNCHANGED <<ctlvars, ledgervars, cachevars, browservars>>

GatewayNext ==
  \/ InferenceActCall
  \/ InferenceAct
  \/ InferenceExtractCall
  \/ InferenceExtract
  \/ InferenceReturn

GatewaySpec == Init /\ [][GatewayNext]_vars

\* ================================================ observe and the Ledger
\* Stagehand.observe step by step, and the Ledger under the writes of act
\* calls on several action texts.
LedgerTexts == {"goal1", "goal2"}

\* str(element_id) for the ids of the model
Str(n) == CASE n = 1 -> "1" [] n = 7 -> "7" [] OTHER -> "?"

\* the keys of result["selectorMap"]
SelectorKeys(selectorMap) == {Str(i) : i \in selectorMap}

\* f"xpath={selector}"
Locator(key) == [xpath |-> key]

\* message.content of the model's answer to observe: nothing, the sentinel,
\* an element id
ObserveContents == {"", "NONE"} \cup {Str(i) : i \in ElementIds}

\* lib.inference.observe as Stagehand.observe sees it (lib/inference.py 192-218)
ObserveReplies(model) ==
  IF model \notin supported_models
  THEN {[kind |-> "raise", error |-> "ValueError"]}
  ELSE {[kind |-> "raise", error |-> "InferenceFailure"]}
       \cup {IF c = "" THEN [kind |-> "raise", error |-> "Exception"]
                       ELSE [kind |-> "content", content |-> c] : c \in ObserveContents}

\* mutant of IsNoMatch: the sentinel is taken for an element id
IsNoMatch_never(element_id) == FALSE

\* stagehand.py 806
IsNoMatch(element_id) == element_id = "NONE"

\* an act call runs to one of its two endings that write the Ledger
\* (stagehand.py 628-633, 652-657)
ActRecords ==
  /\ pc = "idle"
  /\ \E a \in LedgerTexts, res \in {""} \cup StepDescs :
       /\ op' = "act"
       /\ action' = a
       /\ response' = IF res = "" THEN NoResponse
                      ELSE [kind |-> "decision", element |-> 1, method |-> "click",
                            step |-> res, completed |-> TRUE]
       /\ overwritten' = (sha256(a) \in DOMAIN actions /\ actions[sha256(a)].result # res)
       /\ IF res = ""
          THEN Finish(Returned(FALSE, "Error performing action"),
                      record_action(actions, a, ""))
          ELSE Finish(Returned(TRUE, "Action completed successfully"),
                      record_action(actions, a, res))
  /\ UNCHANGED <<numChunks, model_name, visionArg, chunks_seen, chunk, action_complete,
                 gatewayCalls, visited, revisit, usedScreenshot, stable, streak,
                 commands, verification, observations, gwvars, cachevars,
                 browservars>>

\* Stagehand.observe is called
ObserveCall ==
  /\ pc = "idle"
  /\ \E o \in LedgerTexts, m \in ModelNameArgs :
       /\ action' = o
       /\ model_name' = m
  /\ op' = "observe"
  /\ pc' = "observe"
  /\ UNCHANGED <<numChunks, visionArg, frame, handlers, chunks_seen, chunk, response,
                 action_complete, result, actions, hist, ledgervars, gwvars, cachevars,
                 browservars>>

\* mutant of ObserveSnapshot: the snapshot skips the first chunk
ObserveSnapshot_skipsFirst(n) == processDom(<<0>>, n)

\* stagehand.py 793: window.processDom([])
ObserveSnapshot(n) == processDom(<<>>, n)

\* observe up to the test for the sentinel (stagehand.py 790-812): the
\* snapshot, then the gateway call
Observe ==
  /\ pc = "observe"
  /\ LET dom == ObserveSnapshot(numChunks)
     IN  /\ chunk' = dom.chunk
         /\ visited' = visited \cup {dom.chunk}
         /\ gatewayCalls' = gatewayCalls + 1
  /\ \E r \in ObserveReplies(Model) :
       /\ response' = r
       /\ IF r.kind = "raise"
          THEN Finish(Raised(r.error), actions)
          ELSE IF IsNoMatch(r.content)
          THEN Finish([kind |-> "returned", value |-> None], actions)
          ELSE /\ pc' = "resolve"
               /\ UNCHANGED <<frame, handlers, result, actions>>
  /\ UNCHANGED <<numChunks, op, action, model_name, visionArg, chunks_seen,
                 action_complete, revisit, usedScreenshot, stable, streak, commands,
                 verification, ledgervars, gwvars, cachevars,
                 browservars>>

\* observe from the selector lookup to the Ledger write (stagehand.py 820-835)
Resolve ==
  /\ pc = "resolve"
  /\ IF response.content \notin SelectorKeys(ObserveSnapshot(numChunks).selectorMap)
     THEN /\ Finish(Raised("KeyError"), actions)
          /\ UNCHANGED <<commands, observations, overwritten>>
     ELSE \E found \in BOOLEAN :
            /\ commands' = <<[element |-> response.content, method |-> "find_element",
                              ok |-> found]>>
            /\ IF found
               THEN /\ observations' = record_observation(observations, action,
                                                          Locator(response.content))
                    /\ overwritten' = FALSE
                    /\ Finish([kind |-> "returned", value |-> sha256(action)], actions)
               ELSE /\ Finish(Raised("NoSuchElementException"), actions)
                    /\ UNCHANGED <<observations, overwritten>>
  /\ UNCHANGED <<numChunks, op, action, model_name, visionArg, chunks_seen, chunk,
                 response, action_complete, gatewayCalls, visited, revisit,
                 usedScreenshot, stable, streak, verification, gwvars, cachevars,
                 browservars>>

\* ================================================ lib/cache.py, the calls
\* the keys and values the caller of the cache uses
CacheKeys == {sha256(t) : t \in LedgerTexts}
CacheValues == {[id |-> "i1", result |-> "r1"], [id |-> "i2", result |-> "r2"]}

\* Cache(disabled) (lib/cache.py 17-23)
CacheNew ==
  /\ pc = "idle"
  /\ \E disabled \in BOOLEAN :
       LET c == [kind |-> "cache", disabled |-> disabled]
       IN  /\ cache' = c
           /\ files' = init_cache(c, files)
  /\ cacheResult' = [op |-> "Cache", kind |-> "returned"]
  /\ UNCHANGED <<writers, ctlvars, ledgervars, gwvars, browservars>>

\* Cache.write_actions (lib/cache.py 60-69)
WriteActions ==
  /\ pc = "idle"
  /\ cache # NoCache
  /\ \E k \in CacheKeys, v \in CacheValues :
       /\ files' = write_actions(cache, files, k, v)
       /\ cacheResult' = [op |-> "write_actions", kind |-> "returned", key |-> k, value |-> v]
  /\ UNCHANGED <<cache, writers, ctlvars, ledgervars, gwvars, browservars>>

\* Cache.write_observations (lib/cache.py 49-58)
WriteObservations ==
  /\ pc = "idle"
  /\ cache # NoCache
  /\ \E k \in CacheKeys, v \in CacheValues :
       /\ files' = write_observations(cache, files, k, v)
       /\ cacheResult' = [op |-> "write_observations", kind |-> "returned",
                          key |-> k, value |-> v]
  /\ UNCHANGED <<cache, writers, ctlvars, ledgervars, gwvars, browservars>>

\* Cache.read_actions (lib/cache.py 37-47)
ReadActions ==
  /\ pc = "idle"
  /\ cache # NoCache
  /\ cacheResult' = [op |-> "read_actions", kind |-> "returned",
                     value |-> read_actions(cache, files)]
  /\ UNCHANGED <<cache, writers, files, ctlvars, ledgervars, gwvars, browservars>>

\* Cache.read_observations (lib/cache.py 25-35)
ReadObservations ==
  /\ pc = "idle"
  /\ cache # NoCache
  /\ cacheResult' = [op |-> "read_observations", kind |-> "returned",
                     value |-> read_observations(cache, files)]
  /\ UNCHANGED <<cache, writers, files, ctlvars, ledgervars, gwvars, browservars>>

\* Cache.evict_cache (lib/cache.py 71-73)
EvictCache ==
  /\ pc = "idle"
  /\ cache # NoCache
  /\ cacheResult' = [op |-> "evict_cache", kind |-> "raised",
                     error |-> "NotImplementedError"]
  /\ UNCHANGED <<cache, writers, files, ctlvars, ledgervars, gwvars, browservars>>

CacheNext ==
  \/ CacheNew
  \/ WriteActions
  \/ WriteObservations
  \/ ReadActions
  \/ ReadObservations
  \/ EvictCache

CacheSpec == Init /\ [][CacheNext]_vars

\* ================================= one _act invocation, command by command
\* stagehand.py 407-562 seen from inside: each browser command is a step. An
\* invocation starts from the snapshot and a decision for an element of the
\* selector map, with the retries an earlier invocation handed it.
BrowserDecisions == {r \in Decisions : r.element \in SelectorIds}

\* the element command the invocation sends now
Command(method, ok) ==
  [element |-> response.element, method |-> method, ok |-> ok,
   snapshot |-> browser.snapshot]

\* the invocation ends; ending says how the controller goes on
Iterated(b, ending) ==
  /\ pc' = "iterated"
  /\ browser' = [b EXCEPT !.outcome = ending]

\* the retries the next invocation is called with: retries + 1 by a handler
\* that retries (stagehand.py 524, 541, 648), the default 0 otherwise
NextRetries(ending) == IF ending.next = "retry" THEN ending.retries ELSE 0

\* _act from its start to the selector lookup (stagehand.py 292-411); the
\* narrative handed on from earlier invocations is left out
Iterate ==
  /\ pc \in {"idle", "iterated", "verified"}
  /\ browser.outcome.next \in {"none", "advance", "retry"}
  /\ \E r \in BrowserDecisions :
       /\ response' = r
       /\ frame' = [steps |-> <<>>, retries |-> NextRetries(browser.outcome),
                    use_vision |-> "False", verifier_use_vision |-> FALSE]
  /\ op' = "act"
  /\ pc' = "locate"
  /\ commands' = <<>>
  /\ browser' = [TakeSnapshot(browser) EXCEPT !.faults = {}, !.initial_url = "none",
                                               !.outcome = [next |-> "none"]]
  /\ UNCHANGED <<numChunks, action, model_name, visionArg, handlers, chunks_seen, chunk,
                 action_complete, result, actions, gatewayCalls, visited, revisit,
                 usedScreenshot, stable, streak, verification, ledgervars, gwvars,
                 cachevars>>

\* find_element and initial_url (stagehand.py 428-430)
Locate ==
  /\ pc = "locate"
  /\ \E found \in BOOLEAN :
       /\ commands' = Append(commands, Command("find_element", found))
       /\ IF found
          THEN /\ pc' = "command"
               /\ browser' = [browser EXCEPT !.initial_url = current_url(browser)]
          ELSE Iterated(browser, ExceptOutcome(frame))
  /\ UNCHANGED <<numChunks, op, action, model_name, visionArg, frame, handlers,
                 chunks_seen, chunk, response, action_complete, result, actions,
                 gatewayCalls, visited, revisit, usedScreenshot, stable, streak,
                 verification, ledgervars, gwvars, cachevars>>

\* the command of the decision's method (stagehand.py 432-458, 503-549)
SendCommand ==
  /\ pc = "command"
  /\ \E raised \in BOOLEAN :
       CASE MethodKind(response.method) = "scroll" ->
              /\ commands' = Append(commands, Command("scrollIntoView", ~raised))
              /\ IF AfterScroll(raised) = "steps"
                 THEN /\ pc' = "steps"
                      /\ browser' = [browser EXCEPT !.faults =
                                       IF raised THEN @ \cup {"scroll_error"} ELSE @]
                 ELSE Iterated(browser, ExceptOutcome(frame))
         [] MethodKind(response.method) = "click" ->
              /\ commands' = Append(commands, Command("click", ~raised))
              /\ IF raised
                 THEN Iterated(browser, ExceptOutcome(frame))
                 ELSE /\ pc' = "tabs"
                      /\ \E b \in ClickEffects(browser) : browser' = b
         [] MethodKind(response.method) = "fill" ->
              IF raised
              THEN /\ commands' = Append(commands, Command("clear", FALSE))
                   /\ IF RetryAllowed(frame.retries)
                      THEN Iterated(browser, [next |-> "retry", steps |-> frame.steps,
                                              retries |-> frame.retries + 1])
                      ELSE /\ pc' = "steps"
                           /\ browser' = browser
              ELSE /\ commands' = commands \o <<Command("clear", TRUE),
                                                 Command("click", TRUE),
                                                 Command("send_keys", TRUE)>>
                   /\ pc' = "steps"
                   /\ browser' = browser
         [] OTHER ->
              /\ commands' = commands
              /\ IF RetryAllowed(frame.retries)
                 THEN Iterated(browser, [next |-> "retry", steps |-> frame.steps,
                                         retries |-> frame.retries + 1])
                 ELSE Iterated(browser, [next |-> "invalid", steps |-> frame.steps,
                                         retries |-> frame.retries])
  /\ UNCHANGED <<numChunks, op, action, model_name, visionArg, frame, handlers,
                 chunks_seen, chunk, response, action_complete, result, actions,
                 gatewayCalls, visited, revisit, usedScreenshot, stable, streak,
                 verification, ledgervars, gwvars, cachevars>>

\* after the click: a new window, if there is one (stagehand.py 459-474);
\* driver.get may fail, and then the except clause takes over
Tabs ==
  /\ pc = "tabs"
  /\ \E loaded \in BOOLEAN :
       IF loaded \/ Len(browser.handles) = 1
       THEN /\ pc' = "ready"
            /\ browser' = HandleNewTab(browser)
       ELSE Iterated([ClosedNewTab(browser) EXCEPT !.faults = @ \cup {"get_error"}],
                     ExceptOutcome(frame))
  /\ UNCHANGED <<numChunks, op, action, model_name, visionArg, frame, handlers,
                 chunks_seen, chunk, response, action_complete, result, actions,
                 gatewayCalls, visited, revisit, usedScreenshot, stable, streak,
                 commands, verification, ledgervars, gwvars, cachevars>>

\* the bounded wait for document.readyState (stagehand.py 476-501); the
\* scripts injected again after a changed URL leave the windows as they are
Ready ==
  /\ pc = "ready"
  /\ \E state \in {"complete", "timeout"} :
       browser' = [browser EXCEPT !.faults =
                     IF state = "timeout" THEN @ \cup {"ready_timeout"} ELSE @]
  /\ pc' = "steps"
  /\ UNCHANGED <<numChunks, op, action, model_name, visionArg, frame, handlers,
                 chunks_seen, chunk, response, action_complete, result, actions,
                 gatewayCalls, visited, revisit, usedScreenshot, stable, streak,
                 commands, verification, ledgervars, gwvars, cachevars>>

\* new_steps and the way on (stagehand.py 551-621)
Steps ==
  /\ pc = "steps"
  /\ Iterated(browser, StepsOutcome(frame, response))
  /\ UNCHANGED <<numChunks, op, action, model_name, visionArg, frame, handlers,
                 chunks_seen, chunk, response, action_complete, result, actions,
                 gatewayCalls, visited, revisit, usedScreenshot, stable, streak,
                 commands, verification, ledgervars, gwvars, cachevars>>

\* the completion verification of a decision flagged completed and what
\* follows it (stagehand.py 563-633)
Verified ==
  /\ pc = "iterated"
  /\ browser.outcome.next = "verify"
  /\ pc' = "verified"
  /\ \E m \in VerifyModelResponses :
       LET v == verify_act_completion(m)
       IN  browser' = [browser EXCEPT !.outcome =
                         CASE v = "raise" -> ExceptOutcome(frame)
                           [] v = "true" -> [next |-> "success", steps |-> @.steps,
                                             retries |-> @.retries]
                           [] OTHER -> [@ EXCEPT !.next = "advance"]]
  /\ UNCHANGED <<numChunks, op, action, model_name, visionArg, frame, handlers,
                 chunks_seen, chunk, response, action_complete, result, actions,
                 gatewayCalls, visited, revisit, usedScreenshot, stable, streak,
                 commands, verification, ledgervars, gwvars, cachevars>>

\* the call is over; the next call finds the windows as they are
BrowserReturn ==
  /\ pc \in {"iterated", "verified"}
  /\ browser.outcome.next \in {"failure", "invalid", "success"}
  /\ pc' = "idle"
  /\ op' = "none"
  /\ frame' = NoFrame
  /\ response' = NoResponse
  /\ commands' = <<>>
  /\ browser' = [browser EXCEPT !.outcome = [next |-> "none"], !.faults = {},
                                !.initial_url = "none"]
  /\ UNCHANGED <<numChunks, action, model_name, visionArg, handlers, chunks_seen, chunk,
                 action_complete, result, actions, gatewayCalls, visited, revisit,
                 usedScreenshot, stable, streak, verification, ledgervars, gwvars,
                 cachevars>>

BrowserNext ==
  \/ Iterate
  \/ Locate
  \/ SendCommand
  \/ Tabs
  \/ Ready
  \/ Steps
  \/ Verified
  \/ BrowserReturn

BrowserSpec == Init /\ [][BrowserNext]_vars

\* every call the controller makes returns, so the controller takes its next
\* step
FairBrowserSpec == BrowserSpec /\ WF_vars(BrowserNext)

\* ============================== lib/cache.py, two writers at the same time
\* write_actions / write_observations as two steps: the read of the file
\* (lib/cache.py 54, 65) and, later, the rewrite of it (55-58, 66-69). Nothing
\* keeps another caller from taking its steps in between: there is no lock.
CachePaths == {"actions", "observations"}

\* the value a caller writes
WriterValue(w) == IF w = "a" THEN [id |-> "i1", result |-> "r1"]
                  ELSE [id |-> "i2", result |-> "r2"]

\* the first half of a write: the disabled test and the read (51-54, 62-65)
WriterReads(w) ==
  /\ pc = "idle"
  /\ cache # NoCache
  /\ writers[w].pc = "idle"
  /\ \E path \in CachePaths, k \in CacheKeys :
       writers' = [writers EXCEPT ![w] =
                     IF cache.disabled
                     THEN [pc |-> "done", path |-> path, key |-> k, wrote |-> FALSE]
                     ELSE [pc |-> "read", path |-> path, key |-> k,
                           local |-> read_file(cache, files, path)]]
  /\ UNCHANGED <<cache, files, cacheResult, ctlvars, ledgervars, gwvars, browservars>>

\* the second half: the assignment and the dump (55-58, 66-69)
WriterWrites(w) ==
  /\ writers[w].pc = "read"
  /\ LET me == writers[w]
         v == WriterValue(w)
     IN  /\ files' = [files EXCEPT ![me.path] =
                        json_dump(DictSet(me.local, me.key,
                                          [id |-> v.id, result |-> v.result]))]
         /\ writers' = [writers EXCEPT ![w] =
                          [pc |-> "done", path |-> me.path, key |-> me.key, wrote |-> TRUE]]
  /\ UNCHANGED <<cache, cacheResult, ctlvars, ledgervars, gwvars, browservars>>

\* both callers have their writes behind them and go on
WritersReturn ==
  /\ \A w \in Writers : writers[w].pc = "done"
  /\ writers' = [w \in Writers |-> IdleWriter]
  /\ UNCHANGED <<cache, files, cacheResult, ctlvars, ledgervars, gwvars, browservars>>

WritersNext ==
  \/ CacheNew
  \/ \E w \in Writers : WriterReads(w)
  \/ \E w \in Writers : WriterWrites(w)
  \/ WritersReturn

WritersSpec == Init /\ [][WritersNext]_vars

\* the Ledgers' lifetime: the calls that write them, and the cache's eviction
LedgerNext ==
  \/ goto
  \/ ActRecords
  \/ ObserveCall
  \/ Observe
  \/ Resolve
  \/ Return
  \/ CacheNew
  \/ EvictCache

LedgerSpec == Init /\ [][LedgerNext]_vars

\* ==================================================================== claims
IsPrefix(s, t) == Len(s) <= Len(t) /\ SubSeq(t, 1, Len(s)) = s

NotAble == Returned(FALSE, "Action was not able to be completed.")

\* the call ended because the model backend failed or the model is unsupported
BackendFailed ==
  result.kind = "raised" /\ result.error \in {"InferenceFailure", "ValueError"}

\* C1: on a page that reports N chunks throughout one extract call, the
\* controller makes one gateway call per chunk it looks at, looks at no chunk
\* twice, makes at most N gateway calls, and the call ends by returning
\* (a failing model backend aside).
C1_ExtractOneCallPerChunk ==
  (op = "extract" /\ stable) =>
     /\ gatewayCalls = Cardinality(visited)
     /\ ~revisit
     /\ gatewayCalls <= numChunks
     /\ (pc = "done" => (result.kind = "returned" \/ BackendFailed))

\* C2: an extract call whose gateway reports completed = true returns the
\* accumulator at once, and when the call is over the chunks-seen count equals
\* the number of gateway calls made (the chunk of the last call is counted).
C2_ExtractStopsOnCompleted ==
  op = "extract" =>
     /\ (response.kind = "extraction" /\ response.completed) =>
           (pc = "done" /\ result.kind = "returned"
              /\ result.output = Unwrap(response.payload))
     /\ (pc = "done" /\ ~BackendFailed) => Len(chunks_seen) = gatewayCalls

\* C3: extract never makes a gateway call once chunks-seen equals the chunk
\* total, and a call that ends without completed = true has returned the
\* accumulator with every chunk seen.
C3_ExtractStopsWhenExhausted ==
  op = "extract" =>
     /\ (pc = "extract" => Len(chunks_seen) < numChunks)
     /\ (pc = "done" /\ ~BackendFailed /\ stable) =>
           /\ result.kind = "returned"
           /\ (response.kind = "extraction" /\ response.completed)
                 \/ Len(chunks_seen) = numChunks

\* C4: act called with vision mode "fallback" on a vision-capable model ends
\* with "Action was not able to be completed." only after a pass in vision
\* mode (a decide call that carried a screenshot).
C4_FallbackEscalatesBeforeFailing ==
  (op = "act" /\ visionArg = "fallback" /\ Model \in MODELS_WITH_VISION
     /\ pc = "done" /\ result = NotAble) => usedScreenshot

\* C5: a null decision on the last unseen chunk makes act return success =
\* false with "Action was not able to be completed." (and only that does);
\* when every decision of the call was null on a page of N chunks, that is
\* after exactly N decide calls, one per chunk.
C5_NullOnLastChunkFails ==
  op = "act" =>
     /\ (pc = "done" /\ response.kind = "null") => result = NotAble
     /\ (pc = "done" /\ result = NotAble) =>
           (response.kind = "null" /\ Len(chunks_seen) + 1 >= numChunks)
     /\ (pc = "decide" /\ response.kind = "null") => chunk \in Range(chunks_seen)
     /\ (streak = "null" /\ stable) =>
           /\ gatewayCalls <= numChunks
           /\ ~revisit
           /\ gatewayCalls = Cardinality(visited)
           /\ (pc = "done" => (result = NotAble /\ gatewayCalls = numChunks
                                 /\ visited = 0..(numChunks - 1)))

C5_Witness ==
  /\ op = "act" /\ pc = "done" /\ streak = "null" /\ stable
  /\ numChunks = MaxChunks /\ gatewayCalls = MaxChunks /\ result = NotAble

\* C6: a null decision while unseen chunks remain besides the current one
\* appends exactly the current chunk to chunks-seen, appends one "Scrolled to
\* another section" note to the narrative, and leads straight to the next
\* Decide (no Execute step), which looks at the next chunk.
C6_NullWithChunksLeftSkips ==
  [][(op = "act" /\ pc = "decide" /\ gatewayCalls' = gatewayCalls + 1
        /\ response'.kind = "null" /\ Len(chunks_seen) + 1 < numChunks)
     => /\ chunks_seen' = Append(chunks_seen, chunk')
        /\ chunk' \notin Range(chunks_seen)
        /\ pc' = "decide"
        /\ frame'.steps = Append(frame.steps, ScrolledNote)
        /\ handlers' = handlers
        /\ processDom(chunks_seen', numChunks').chunk = chunk' + 1]_vars

C6_Witness ==
  /\ op = "act" /\ pc = "decide" /\ response.kind = "null"
  /\ chunks_seen = <<0>> /\ frame.steps = <<ScrolledNote>> /\ numChunks >= 2

\* C7: while every decision of an act call names an invalid method, each one
\* costs one retry and re-runs Decide on the same chunk state; the retry
\* counter never passes 2, and the third such decision ends the call with a
\* failure result (3 decide calls in total).
C7_InvalidMethodRetriedTwice ==
  op = "act" =>
     /\ (pc \in {"decide", "execute", "verify"} => frame.retries \in 0..2)
     /\ streak = "invalid" =>
           /\ chunks_seen = <<>>
           /\ gatewayCalls <= 3
           /\ (pc = "decide" => (frame.retries = gatewayCalls /\ frame.steps = <<>>))
           /\ (pc = "done" =>
                 /\ gatewayCalls = 3
                 /\ result = Returned(FALSE, "Internal error: Chosen method is invalid"))

C7_Witness ==
  /\ op = "act" /\ pc = "done" /\ streak = "invalid" /\ gatewayCalls = 3
  /\ result = Returned(FALSE, "Internal error: Chosen method is invalid")

\* C8: when every decided action of an act call raised while it was executed
\* (locating, clicking, typing), the third exception ends the call with a
\* failure result and an empty result recorded for the action text.
C8_ExecutionFaultEndsInFailure ==
  (op = "act" /\ streak = "raised" /\ gatewayCalls = 3 /\ pc # "execute") =>
     /\ pc = "done"
     /\ result.kind = "returned" /\ ~result.success
     /\ sha256(action) \in DOMAIN actions
     /\ actions[sha256(action)].result = ""

\* C9: within one act call chunks-seen only grows, and no decide call looks
\* at a chunk that is already in chunks-seen.
C9_ChunksSeenOnlyGrows ==
  [][(op = "act" /\ op' = "act") =>
        /\ IsPrefix(chunks_seen, chunks_seen')
        /\ ~revisit'
        /\ (gatewayCalls' = gatewayCalls + 1 => chunk' \notin Range(chunks_seen))]_vars

C9_Witness ==
  /\ op = "act" /\ pc = "execute" /\ Len(chunks_seen) = 2 /\ chunk = 2
  /\ frame.steps = <<ScrolledNote, ScrolledNote>>

\* C10: act returns success = true only when the last decision was flagged
\* completed and verifyCompletion returned true for it, and then the Ledger
\* holds the decision's step description for the action text; a decision not
\* flagged completed is never verified.
C10_SuccessOnlyWhenVerified ==
  op = "act" =>
     /\ (pc = "verify" => (response.kind = "decision" /\ response.completed))
     /\ (pc = "done" /\ result.kind = "returned" /\ result.success) =>
           /\ response.kind = "decision" /\ response.completed
           /\ action_complete
           /\ sha256(action) \in DOMAIN actions
           /\ actions[sha256(action)] = [result |-> response.step, action |-> action]
     /\ (action_complete => (pc = "done" /\ result.kind = "returned" /\ result.success))

C10_Witness ==
  /\ op = "act" /\ pc = "done" /\ result.kind = "returned" /\ result.success
  /\ response.step = "s2" /\ actions[sha256(action)].result = "s2"

\* C11: every verifyCompletion call of the controller is given exactly one of
\* a full-page screenshot and the full-DOM encoding: the screenshot when the
\* frame's verifier vision is on, the DOM encoding otherwise.
C11_VerifierGetsExactlyOne ==
  (op = "act" /\ verification.kind = "call") =>
     /\ verification.screenshot # verification.dom_elements
     /\ verification.screenshot = verification.vision
     /\ verification.vision =
           (ActVerifierUseVision(ActUseVision(visionArg)) /\ Model \in MODELS_WITH_VISION)

C11_Witness ==
  /\ op = "act" /\ verification.kind = "call"
  /\ verification.screenshot /\ ~verification.dom_elements

\* a model response verify_act_completion cannot read a verdict from
Malformed(m) ==
  m.type # "raise" /\ (m.empty \/ m.type # "dict" \/ "completed" \notin m.keys)

\* C12: when the model's answer to a verification is empty, not an object,
\* or lacks the completed field, verify_act_completion returns false without
\* raising: the controller appends the step and goes on to the next Decide,
\* with no retry charged and no result produced.
C12_MalformedVerificationIsNotCompleted ==
  [][(op = "act" /\ pc = "verify" /\ verification'.kind = "call"
        /\ Malformed(verification'.reply))
     => /\ verify_act_completion(verification'.reply) = "false"
        /\ ~action_complete'
        /\ pc' = "decide"
        /\ frame' = [frame EXCEPT !.steps = NewSteps(frame.steps, response), !.retries = 0]
        /\ result' = result
        /\ actions' = actions]_vars

C12_Witness ==
  /\ op = "act" /\ pc = "decide" /\ verification.kind = "call"
  /\ verification.reply.type = "dict" /\ verification.reply.keys = {"reason"}
  /\ frame.steps = <<StepRecord(response)>>

\* C18: with a supported model that has no vision, act works without
\* vision: no decide call and no verification carries a screenshot, whatever
\* the caller asked for, and nothing is raised on account of vision.
C18_NoVisionModelNeverGetsScreenshot ==
  (op = "act" /\ Model \in supported_models \ MODELS_WITH_VISION) =>
     /\ ~usedScreenshot
     /\ (pc \in {"execute", "verify"} =>
            (frame.use_vision = "False" /\ ~frame.verifier_use_vision))
     /\ (verification.kind = "call" =>
            (~verification.screenshot /\ verification.dom_elements))
     /\ (result.kind = "raised" => result.error \in {"InferenceFailure", "KeyError"})

C18_Witness ==
  /\ op = "act" /\ model_name = "o1-mini" /\ visionArg = "True"
  /\ pc = "done" /\ result.kind = "returned" /\ result.success
  /\ verification.kind = "call" /\ ~verification.screenshot

\* C19: a backend failure of a model call (decide or verify) during an act
\* call ends that call by raising the failure to the caller of act.
C19_TransportFailureSurfaced ==
  (op = "act"
     /\ \/ (response.kind = "raise" /\ response.error = "InferenceFailure")
        \/ (verification.kind = "call" /\ verification.reply.type = "raise"))
  => (pc = "done" /\ result = Raised("InferenceFailure"))

\* C20: a decision with a known method on an element of the map whose
\* command went through, and which is not confirmed complete (not flagged
\* completed, or verified false), costs exactly one command, sent to that
\* element, puts exactly one step record at the end of the narrative, and
\* leads to the next Decide with chunks-seen as it was.
C20_UnconfirmedDecisionAdvances ==
  [][/\ (op = "act" /\ pc = "execute" /\ commands' # <<>> /\ commands'[1].ok
           /\ ~response.completed)
        => /\ commands' = <<[element |-> response.element, method |-> response.method,
                             ok |-> TRUE]>>
           /\ response.element \in processDom(chunks_seen, numChunks).selectorMap
           /\ pc' = "decide"
           /\ frame'.steps = Append(frame.steps, StepRecord(response))
           /\ chunks_seen' = chunks_seen
     /\ (op = "act" /\ pc = "verify" /\ commands[1].ok /\ verification'.kind = "call"
           /\ verify_act_completion(verification'.reply) = "false")
        => /\ commands' = commands /\ Len(commands) = 1
           /\ commands[1].element = response.element
           /\ pc' = "decide"
           /\ frame'.steps = Append(frame.steps, StepRecord(response))
           /\ chunks_seen' = chunks_seen]_vars

C20_Witness ==
  /\ op = "act" /\ pc = "decide" /\ response.kind = "decision" /\ ~response.completed
  /\ commands = <<[element |-> 1, method |-> "click", ok |-> TRUE]>>
  /\ chunks_seen = <<0>> /\ frame.steps = <<ScrolledNote, StepRecord(response)>>

\* a model response that carries no tool invocation
NoToolCall(r) == r.kind = "message" /\ r.tool_calls = <<>>

\* C13: one decideAction invocation makes at most 3 model calls; every call
\* but the last got a response with no tool invocation; a third such response
\* makes it return null with an error logged, raising nothing; a skipSection
\* response makes it return null at once.
C13_GatewayRetriesTwice ==
  gateway.op = "act" =>
     /\ Len(modelCalls) <= 3
     /\ \A i \in 1..(Len(modelCalls) - 1) : NoToolCall(modelCalls[i].reply)
     /\ (gatewayResult = NoResult =>
           /\ Len(modelCalls) = gateway.retries
           /\ \A i \in 1..Len(modelCalls) : NoToolCall(modelCalls[i].reply))
     /\ (gatewayResult # NoResult /\ modelCalls # <<>> =>
           /\ Len(modelCalls) = gateway.retries + 1
           /\ NoToolCall(Last(modelCalls).reply) =>
                 (Len(modelCalls) = 3 /\ gatewayResult = GatewayReturned(None, TRUE))
           /\ (Last(modelCalls).reply.kind = "message"
                 /\ Last(modelCalls).reply.tool_calls # <<>>
                 /\ Last(modelCalls).reply.tool_calls[1].name = "skipSection") =>
                 gatewayResult = GatewayReturned(None, FALSE))

C13_Witness ==
  /\ gateway.op = "act" /\ Len(modelCalls) = 3
  /\ NoToolCall(modelCalls[3].reply)
  /\ gatewayResult = GatewayReturned(None, TRUE)

\* C14: an extract gateway invocation makes its model calls in the order
\* extract, refine, metadata, and returns after exactly three; refine is
\* given the prior accumulator and the raw extraction, metadata is given the
\* refined payload and the chunk counts and never the raw extraction.
C14_ExtractThreeStages ==
  gateway.op = "extract" =>
     /\ Len(modelCalls) <= 3
     /\ \A i \in 1..Len(modelCalls) :
           modelCalls[i].stage = <<"extract", "refine", "metadata">>[i]
     /\ (Len(modelCalls) >= 2 =>
           modelCalls[2].inputs =
              [previously_extracted_content |-> gateway.previously_extracted_content,
               extraction_response |-> modelCalls[1].reply.value])
     /\ (Len(modelCalls) = 3 =>
           /\ modelCalls[3].inputs =
                 [refined_response |-> modelCalls[2].reply.value,
                  chunks_seen |-> gateway.chunks_seen,
                  chunks_total |-> gateway.chunks_total]
           /\ modelCalls[3].inputs.refined_response \notin RawOutputs)
     /\ (gatewayResult.kind = "returned" =>
           /\ Len(modelCalls) = 3
           /\ gatewayResult.value = [payload |-> modelCalls[2].reply.value,
                                     metadata |-> modelCalls[3].reply.value])

C14_Witness ==
  /\ gateway.op = "extract" /\ gatewayResult.kind = "returned"
  /\ Len(modelCalls) = 3 /\ modelCalls[1].reply.value = "raw2"
  /\ gatewayResult.value.payload = "ref1"

\* C15: when the observe gateway answers "NONE", observe returns no match
\* at once, raises nothing, and leaves both Ledgers as they were.
C15_NoMatchLeavesLedger ==
  [][(op = "observe" /\ pc = "observe" /\ response'.kind = "content"
        /\ response'.content = "NONE")
     => /\ pc' = "done"
        /\ result' = [kind |-> "returned", value |-> None]
        /\ observations' = observations
        /\ actions' = actions]_vars

C15_Witness ==
  /\ op = "observe" /\ pc = "done" /\ response.kind = "content"
  /\ response.content = "NONE" /\ result = [kind |-> "returned", value |-> None]
  /\ sha256(action) \in DOMAIN observations /\ actions # <<>>

\* C16: when the observe gateway answers an element id, observe ends in that
\* one step: the observations Ledger gets the entry for the fingerprint of the
\* observation text exactly when the element was found in the page; when it
\* was not found, or the id is not in the map, the call raises and the Ledger
\* is as before.
C16_ObservationRecordedWhenFound ==
  [][(op = "observe" /\ pc = "resolve")
     => /\ pc' = "done"
        /\ actions' = actions
        /\ IF commands' # <<>> /\ commands'[1].ok
           THEN /\ result' = [kind |-> "returned", value |-> sha256(action)]
                /\ DOMAIN observations' = DOMAIN observations \cup {sha256(action)}
                /\ observations'[sha256(action)] =
                      [result |-> Locator(response.content), observation |-> action]
                /\ \A k \in DOMAIN observations \ {sha256(action)} :
                      observations'[k] = observations[k]
           ELSE /\ result'.kind = "raised"
                /\ observations' = observations]_vars

C16_Witness ==
  /\ op = "observe" /\ pc = "done" /\ action = "goal2"
  /\ commands = <<[element |-> "1", method |-> "find_element", ok |-> TRUE]>>
  /\ DOMAIN observations = {sha256("goal2")}
  /\ result = [kind |-> "returned", value |-> sha256("goal2")]

\* C17: a Ledger write for an action text puts the written result under the
\* text's fingerprint, replacing what was there, adds no other entry, and
\* leaves the entries of other fingerprints alone; different texts have
\* different fingerprints.
C17_LedgerLastWriteWins ==
  [][(pc = "idle" /\ op' = "act" /\ pc' = "done")
     => /\ DOMAIN actions' = DOMAIN actions \cup {sha256(action')}
        /\ actions'[sha256(action')] =
              [result |-> (IF result'.success THEN response'.step ELSE ""),
               action |-> action']
        /\ \A k \in DOMAIN actions \ {sha256(action')} : actions'[k] = actions[k]
        /\ \A k \in DOMAIN actions' : sha256(actions'[k].action) = k
        /\ Cardinality(DOMAIN actions') <= Cardinality(LedgerTexts)]_vars

C17_Witness ==
  /\ op = "act" /\ pc = "done" /\ overwritten /\ action = "goal1"
  /\ DOMAIN actions = {sha256("goal1"), sha256("goal2")}
  /\ actions[sha256("goal1")].result = "s2"

\* the decision names an element id that the selector map does not hold
UnknownElement ==
  /\ response.kind = "decision"
  /\ response.element \notin processDom(chunks_seen, numChunks).selectorMap

\* C21: a decision whose element id is absent from the selector map is an
\* invalid decision: it is retried at most twice and then the call returns a
\* failure result; the call never raises because of it.
C21_UnknownElementNeverRaises ==
  (op = "act" /\ pc = "done" /\ UnknownElement) =>
     /\ result.kind = "returned"
     /\ ~result.success
     /\ gatewayCalls <= 3

\* C23: every top-level act call starts with an empty chunks-seen list and an
\* empty narrative, every top-level extract call with an empty chunks-seen
\* list, an empty progress note and an empty accumulator, whatever the call
\* before left behind; the first gateway call of a call is made in that state.
C23_CallsStartEmpty ==
  [][/\ (pc = "idle" /\ op' = "act" /\ pc' # "idle") =>
          /\ chunks_seen' = <<>>
          /\ frame'.steps = <<>>
          /\ frame'.retries = 0
          /\ handlers' = <<>>
     /\ (pc = "idle" /\ op' = "extract" /\ pc' # "idle") =>
          /\ chunks_seen' = <<>>
          /\ frame'.progress = ""
          /\ frame'.content = EmptyContent
          /\ handlers' = <<>>
     /\ (gatewayCalls = 0 /\ gatewayCalls' = 1 /\ op \in {"act", "extract"}) =>
          /\ chunks_seen = <<>>
          /\ chunk' = 0
          /\ (op = "act" => frame.steps = <<>>)
          /\ (op = "extract" => frame.progress = "" /\ frame.content = EmptyContent)]_vars

\* a call starts after an act call that had seen a chunk and recorded its end
C23_Witness ==
  /\ op = "act" /\ pc = "decide" /\ gatewayCalls = 0
  /\ chunks_seen = <<>> /\ frame.steps = <<>>
  /\ actions # <<>> /\ numChunks = MaxChunks

\* C25: observe is a single pass: whatever the number of chunks of the page,
\* a call takes one snapshot (of the first chunk, with nothing marked seen)
\* and makes one gateway call, both before it looks up the selector; it never
\* moves on to another chunk, never marks a chunk seen and never starts over.
C25_ObserveSinglePass ==
  [][op = "observe" =>
       /\ gatewayCalls' <= 1
       /\ visited' \subseteq {0}
       /\ chunks_seen' = chunks_seen
       /\ (pc = "observe" => /\ gatewayCalls = 0 /\ gatewayCalls' = 1
                             /\ visited' = {0} /\ chunk' = 0
                             /\ pc' \in {"resolve", "done"})
       /\ (pc = "resolve" => /\ gatewayCalls = 1 /\ gatewayCalls' = 1
                             /\ visited' = visited
                             /\ pc' = "done")]_vars

C25_Witness ==
  /\ op = "observe" /\ pc = "done" /\ numChunks = MaxChunks
  /\ gatewayCalls = 1 /\ visited = {0} /\ chunks_seen = <<>>
  /\ result.kind = "returned" /\ Len(commands) = 1 /\ commands[1].ok

\* C24: a call of act, extract or observe with a model name outside the
\* supported-model table fails fast: its first gateway call is its last step,
\* the call ends by raising to the caller (the unsupported-model error for act
\* and observe; extract's gateway call raises before the table is consulted),
\* no element command has been sent, neither Ledger has changed and nothing
\* is tried again; inside the gateway the error comes before any model request.
C24_UnsupportedModelFailsFast ==
  [][/\ (/\ op \in {"act", "extract", "observe"}
         /\ pc \notin {"idle", "done"}
         /\ Model \notin supported_models
         /\ numChunks' = numChunks) =>
           /\ gatewayCalls = 0
           /\ gatewayCalls' = 1
           /\ pc' = "done"
           /\ result'.kind = "raised"
           /\ (op # "extract" => result' = Raised("ValueError"))
           /\ commands' = <<>>
           /\ actions' = actions
           /\ observations' = observations
     /\ (/\ gateway.op # "none"
         /\ gateway.model_name \notin supported_models
         /\ gatewayResult = NoResult) =>
           /\ modelCalls = <<>>
           /\ modelCalls' = <<>>
           /\ gatewayResult' = Raised("ValueError")]_vars

C24_Witness ==
  /\ op = "act" /\ pc = "done" /\ Model \notin supported_models
  /\ result = Raised("ValueError")
  /\ gatewayCalls = 1 /\ commands = <<>> /\ actions # <<>>

\* the same for observe and for the gateway seen from inside
C24_ObserveWitness ==
  /\ op = "observe" /\ pc = "done" /\ Model \notin supported_models
  /\ result = Raised("ValueError")
  /\ gatewayCalls = 1 /\ commands = <<>> /\ observations # <<>>

C24_GatewayWitness ==
  /\ gateway.op # "none" /\ gateway.model_name \notin supported_models
  /\ gatewayResult = Raised("ValueError") /\ modelCalls = <<>>

\* the keys a cache file holds
FileKeys(file) == IF file.kind = "json" THEN DictKeys(file.document) ELSE {}

\* C26: nothing is ever evicted: no step of act, observe or the cache takes a
\* fingerprint out of the actions Ledger or the observations Ledger (an entry
\* changes only when the call in progress writes its own fingerprint), no step
\* takes a key out of a cache file, and the cache's eviction operation always
\* raises NotImplementedError and removes nothing.
C26_LedgerNeverEvicted ==
  [][/\ DOMAIN actions \subseteq DOMAIN actions'
     /\ DOMAIN observations \subseteq DOMAIN observations'
     /\ \A k \in DOMAIN actions : actions'[k] = actions[k] \/ k = sha256(action')
     /\ \A k \in DOMAIN observations :
           observations'[k] = observations[k] \/ k = sha256(action')
     /\ FileKeys(files.actions) \subseteq FileKeys(files'.actions)
     /\ FileKeys(files.observations) \subseteq FileKeys(files'.observations)
     /\ (cacheResult' # cacheResult /\ cacheResult'.op = "evict_cache") =>
           /\ cacheResult'.kind = "raised"
           /\ cacheResult'.error = "NotImplementedError"
           /\ files' = files
           /\ actions' = actions
           /\ observations' = observations]_vars

C26_Witness ==
  /\ DOMAIN actions = {sha256(t) : t \in LedgerTexts}
  /\ DOMAIN observations = {sha256(t) : t \in LedgerTexts}
  /\ cacheResult.op = "evict_cache" /\ cacheResult.kind = "raised"
  /\ files.actions = json_dump(EmptyDict)

\* the write the step made left the other file alone and changed the written
\* file in the written key only
WroteOnly(path, other) ==
  IF cache.disabled
  THEN files' = files
  ELSE /\ files'[other] = files[other]
       /\ files[path].kind = "json"
       /\ files'[path].kind = "json"
       /\ LET old == files[path].document
              new == files'[path].document
              k == cacheResult'.key
              v == cacheResult'.value
          IN  /\ DictKeys(new) = DictKeys(old) \cup {k}
              /\ Len(new) = Cardinality(DictKeys(new))
              /\ DictValue(new, k) = [id |-> v.id, result |-> v.result]
              /\ \A j \in DictKeys(old) \ {k} : DictValue(new, j) = DictValue(old, j)

\* C30: write_actions / write_observations of one key sets that key of its own
\* file to {id, result}, keeps every other key of that file with its value and
\* leaves the other file as it was; a read changes no file and returns what
\* the file holds; on a disabled cache a write changes nothing and a read
\* returns an empty map.
C30_CacheWriteFrame ==
  [][(cachevars' # cachevars) =>
       /\ (cacheResult'.op = "write_actions") => WroteOnly("actions", "observations")
       /\ (cacheResult'.op = "write_observations") => WroteOnly("observations", "actions")
       /\ (cacheResult'.op = "read_actions") =>
             /\ files' = files
             /\ cacheResult'.value =
                  IF cache.disabled THEN EmptyDict ELSE files.actions.document
       /\ (cacheResult'.op = "read_observations") =>
             /\ files' = files
             /\ cacheResult'.value =
                  IF cache.disabled THEN EmptyDict ELSE files.observations.document]_vars

\* a second key was written to actions.json while observations.json held one
C30_Witness ==
  /\ cache # NoCache /\ ~cache.disabled
  /\ cacheResult.op = "write_actions"
  /\ FileKeys(files.actions) = CacheKeys
  /\ DictValue(files.actions.document, cacheResult.key) = cacheResult.value
  /\ \E j \in CacheKeys \ {cacheResult.key} :
        DictValue(files.actions.document, j) # cacheResult.value
  /\ Cardinality(FileKeys(files.observations)) = 1

\* a disabled cache was written to and the files held what they held
C30_DisabledWitness ==
  /\ cache # NoCache /\ cache.disabled
  /\ cacheResult.op = "write_observations"
  /\ FileKeys(files.observations) = {} /\ FileKeys(files.actions) # {}

ExpectedOutcome ==
  [next |-> IF response.completed THEN "verify" ELSE "advance",
   steps |-> Append(frame.steps, [kind |-> "step", step |-> response.step,
                                  element |-> response.element,
                                  method |-> response.method]),
   retries |-> frame.retries]

ScrollFailed ==
  \E i \in DOMAIN commands : commands[i].method = "scrollIntoView" /\ ~commands[i].ok

\* C28: an invocation whose scrollIntoView raised, or whose wait for page
\* readiness after the click timed out, ends as the invocation whose commands
\* all succeeded does: with the step record appended to the narrative, with
\* the retries it came with, on the way to verification (decision flagged
\* completed) or to the next step.
C28_NonFatalFaults ==
  /\ (pc = "iterated" /\ (ScrollFailed \/ "ready_timeout" \in browser.faults
                           \/ (browser.faults = {} /\ \A i \in DOMAIN commands : commands[i].ok))
        /\ browser.outcome.next \notin {"retry", "invalid"})
       => browser.outcome = ExpectedOutcome
  /\ (pc = "iterated" /\ (ScrollFailed \/ "ready_timeout" \in browser.faults))
       => browser.outcome.next \in {"verify", "advance"}

C28_Witness ==
  /\ pc = "iterated" /\ ScrollFailed /\ frame.retries = 2
  /\ browser.outcome.next = "advance" /\ browser.outcome.retries = 2
  /\ Len(browser.outcome.steps) = 1

C28_TimeoutWitness ==
  /\ pc = "iterated" /\ "ready_timeout" \in browser.faults /\ frame.retries = 1
  /\ browser.outcome.next = "verify" /\ browser.outcome.retries = 1

\* C29 (as the code has it): when a click has opened a second window, the
\* handling of it closes the new window and keeps the original one: the
\* original window is the only one open, it is the driver's current window,
\* and it has been navigated to the URL the new window showed. Whenever the
\* invocation goes on, one window is open and it is the current one.
C29_NewWindowClosedOriginalNavigated ==
  [][/\ (pc = "tabs" /\ Len(browser.handles) = 2 /\ pc' = "ready") =>
          LET original == browser.handles[1]
              new == browser.handles[2]
          IN  /\ browser'.handles = <<original>>
              /\ browser'.current = original
              /\ current_url(browser') = browser.url[new]
              /\ browser'.url[new] = "none"
     /\ (pc = "tabs") =>
          /\ Len(browser'.handles) = 1
          /\ browser'.current = browser'.handles[1]]_vars

C29_Witness ==
  /\ pc = "ready" /\ browser.handles = <<"w1">> /\ browser.current = "w1"
  /\ browser.url["w1"] = "u3" /\ browser.initial_url = "u1" /\ browser.url["w2"] = "none"
  /\ browser.snapshot = "stale"

\* C29 (as stated): the controller is on the new window and the original
\* window has been closed.
C29_SwitchedToNewWindow ==
  [][(pc = "tabs" /\ Len(browser.handles) = 2 /\ pc' = "ready") =>
          LET new == browser.handles[2]
          IN  /\ browser'.handles = <<new>>
              /\ browser'.current = new
              /\ current_url(browser') = browser.url[new]]_vars

\* C27: every gateway call of extract that does not fail hands back a result
\* whose "items" list, when it has one, stands for the result: the list (not
\* the wrapper) is the accumulator of the next chunk's gateway call and is
\* what the call returns; a result without "items" is passed on and returned
\* as it is, without the metadata.
C27_ItemsUnwrapped ==
  [][(op = "extract" /\ pc = "extract" /\ numChunks' = numChunks) =>
       \/ pc' = "done" /\ BackendFailed'
       \/ /\ response'.kind = "extraction"
          /\ LET payload == response'.payload
                 output == IF "items" \in DOMAIN payload
                           THEN [list |-> payload.items] ELSE payload
             IN  /\ pc' = "extract" => frame'.content = output
                 /\ pc' = "done" => result' = [kind |-> "returned", output |-> output]]_vars

\* C31: in an act call the retry counter of every invocation, running or
\* suspended, is 0, 1 or 2. An invocation started from another one either
\* continues after an executed step or a chunk skip (the narrative has grown
\* by one record, or by the skip note with the chunk marked seen) and then
\* its counter is 0, or is a retry after a fault: it takes the narrative of
\* the invocation whose handler made it and that invocation's counter plus
\* one, which was below 2. So the budget limits faults in a row, while a call
\* may meet more faults than the budget in total.
C31_RetryCounterDiscipline ==
  [][(op = "act" /\ op' = "act") =>
       /\ (frame' # NoFrame => frame'.retries \in 0..2)
       /\ \A i \in DOMAIN handlers' : handlers'[i].retries \in 0..2
       /\ (pc \in {"decide", "execute", "verify"} /\ pc' = "decide"
             /\ numChunks' = numChunks) =>
            \/ /\ frame'.retries = 0
               /\ Len(frame'.steps) = Len(frame.steps) + 1
               /\ IsPrefix(frame.steps, frame'.steps)
            \/ /\ chunks_seen' = chunks_seen
               /\ \E h \in {frame} \cup Range(handlers) :
                     /\ h.retries < 2
                     /\ frame'.retries = h.retries + 1
                     /\ frame'.steps = h.steps]_vars

\* a fault, an executed step, and a fault again: the counter is at 1, not 2
C31_Witness ==
  /\ op = "act" /\ pc = "decide" /\ gatewayCalls = 3
  /\ Len(handlers) = 2
  /\ handlers[1].retries = 1 /\ handlers[1].steps = <<>>
  /\ handlers[2].retries = 0 /\ Len(handlers[2].steps) = 1
  /\ frame.retries = 1 /\ Len(frame.steps) = 1

\* C32: a fill/type decision whose input raised is never recorded as an
\* executed step, on whichever attempt: the invocation neither appends its
\* step record to the narrative nor goes on to completion verification.
C32_FailedFillNeverRecorded ==
  [][(/\ op = "act" /\ pc = "execute"
      /\ MethodKind(response.method) = "fill"
      /\ Len(commands') = Len(commands) + 1
      /\ ~commands'[Len(commands')].ok) =>
        /\ pc' # "verify"
        /\ (frame' # NoFrame => Len(frame'.steps) <= Len(frame.steps))]_vars

\* the running invocation has carried out the command of its decision
CommandExecuted ==
  /\ commands # <<>>
  /\ commands[Len(commands)].ok
  /\ commands[Len(commands)].element = response.element
  /\ commands[Len(commands)].method = response.method

\* C33: when an invocation has executed the command of its decision and the
\* call goes on to another decide call, whether as the next step or as a
\* retry after a fault met later (during completion verification, say), the
\* narrative of that decide call holds the step record of the executed
\* command.
C33_ExecutedStepStaysInNarrative ==
  [][(/\ op = "act" /\ pc \in {"execute", "verify"} /\ pc' = "decide"
      /\ CommandExecuted') =>
        \E i \in DOMAIN frame'.steps :
           frame'.steps[i] = [kind |-> "step", step |-> response.step,
                              element |-> response.element,
                              method |-> response.method]]_vars

\* C34: every model call one decide call of the gateway makes, the retries
\* after an answer without tool call included, carries what the first one
\* carried: the same screenshot (or none), goal, narrative and DOM encoding.
C34_RetriesCarrySameInputs ==
  gateway.op = "act" =>
     \A i \in DOMAIN modelCalls :
        /\ modelCalls[i].image = modelCalls[1].image
        /\ modelCalls[i].inputs = modelCalls[1].inputs

\* C35: an act call writes the actions Ledger in its last step and only when
\* it ends in verified success (the entry's result is the step description of
\* the final decision) or in "Error performing action" after the retries for
\* exceptions are used up (the entry's result is the empty string); a call
\* that ends with "Action was not able to be completed.", with "Chosen method
\* is invalid" or by raising writes nothing, and no other step writes.
C35_LedgerWrittenAtTwoEndings ==
  [][IF op = "act" /\ pc # "done" /\ pc' = "done"
     THEN LET k == sha256(action)
              written(res) ==
                /\ DOMAIN actions' = DOMAIN actions \cup {k}
                /\ actions'[k] = [result |-> res, action |-> action]
                /\ \A j \in DOMAIN actions \ {k} : actions'[j] = actions[j]
          IN  CASE result' = Returned(TRUE, "Action completed successfully") ->
                     written(response.step)
                [] result' = Returned(FALSE, "Error performing action") ->
                     written("")
                [] OTHER ->
                     /\ actions' = actions
                     /\ \/ result'.kind = "raised"
                        \/ result' = NotAble
                        \/ result' = Returned(FALSE, "Internal error: Chosen method is invalid")
     ELSE actions' = actions]_vars

\* a call ended with "Chosen method is invalid" after an earlier call's
\* success was recorded: the entry is the earlier one
C35_Witness ==
  /\ op = "act" /\ pc = "done"
  /\ result = Returned(FALSE, "Internal error: Chosen method is invalid")
  /\ sha256(action) \in DOMAIN actions
  /\ actions[sha256(action)].result = "s2"

C37_ExtractCallArguments ==
  [][(op = "extract" /\ pc = "extract" /\ numChunks' = numChunks) =>
       /\ gatewayCalls' = gatewayCalls + 1
       /\ Len(chunks_seen) = gatewayCalls
       /\ processDom(chunks_seen, numChunks).chunks = numChunks
       /\ frame.content = IF gatewayCalls = 0 THEN EmptyContent
                          ELSE Unwrap(response.payload)
       /\ \/ pc' = "done" /\ BackendFailed'
          \/ /\ response'.kind = "extraction"
             /\ (~response'.completed /\ gatewayCalls' < numChunks) => pc' = "extract"]_vars

C39_NoLostUpdate ==
  (/\ \A w \in Writers : writers[w].pc = "done" /\ writers[w].wrote
   /\ writers["a"].path = writers["b"].path
   /\ writers["a"].key # writers["b"].key) =>
     {writers["a"].key, writers["b"].key} \subseteq FileKeys(files[writers["a"].path])

====
